---------------------------- MODULE Spec2Model ----------------------------
(***************************************************************************)
(* Model of the CBHPM import pipeline of src/app.py: the numeric and text  *)
(* normalisation (to_float, sanitize_str, extrair_valor), the column       *)
(* resolution and the import coordinator (importar) over the two SQLite    *)
(* tables procedimentos and arquivos_importados, together with the         *)
(* Gerenciar deletion of a version and the GitHub synchronisation          *)
(* (salvar_banco_github).  Spec is one session; SpecConc adds a second     *)
(* session on the shared connection; SpecToFloat and SpecSniffer run       *)
(* to_float and the sniffing of read_csv_smart on their own inputs.        *)
(*                                                                         *)
(* Text is a sequence of one-character strings, so that replace, strip and *)
(* float() act on characters as the Python code does.  A float is a record *)
(* [k, m, e]: k = "fin" is the decimal m * 10^(-e) (normalised: no         *)
(* trailing zero in the fraction), k = "inf" is m * infinity (m = 1 or -1) *)
(* and k = "nan" is NaN.                                                    *)
(***************************************************************************)
EXTENDS Integers, Sequences, FiniteSets, Bags, TLC

(***************************************************************************)
(* Python values met in a DataFrame cell or header.                        *)
(***************************************************************************)
Str(s)   == [t |-> "str", s |-> s, n |-> 0, f |-> <<>>]
IntV(n)  == [t |-> "int", s |-> <<>>, n |-> n, f |-> <<>>]
FloatV(f) == [t |-> "float", s |-> <<>>, n |-> 0, f |-> <<f>>]
\* NaN / None: what pandas yields for an empty cell
NaN      == [t |-> "nan", s |-> <<>>, n |-> 0, f |-> <<>>]

Fin(m, e) == [k |-> "fin", m |-> m, e |-> e]
Inf(sg)   == [k |-> "inf", m |-> sg, e |-> 0]
FNaN      == [k |-> "nan", m |-> 0, e |-> 0]
Zero      == Fin(0, 0)

RECURSIVE Normal(_, _)
\* the canonical form of the decimal m * 10^(-e)
Normal(m, e) ==
    IF e > 0 /\ m % 10 = 0 THEN Normal(m \div 10, e - 1) ELSE Fin(m, e)

Neg(x) == IF x.k = "nan" THEN x ELSE [x EXCEPT !.m = 0 - x.m]

(***************************************************************************)
(* Characters.                                                             *)
(***************************************************************************)
Digits == <<"0", "1", "2", "3", "4", "5", "6", "7", "8", "9">>
IsDigit(c) == \E d \in 1..10 : Digits[d] = c
DigitVal(c) == (CHOOSE d \in 1..10 : Digits[d] = c) - 1
IsSpace(c) == c \in {" ", "\t", "\n", "\r"}

\* str.lower() on the letters float() looks at
Lower(c) ==
    CASE c = "I" -> "i" [] c = "N" -> "n" [] c = "F" -> "f" [] c = "A" -> "a"
      [] c = "T" -> "t" [] c = "Y" -> "y" [] OTHER -> c

RECURSIVE str_replace(_, _, _)
\* s.replace(old, new) for a one-character old
str_replace(s, old, new) ==
    IF s = <<>> THEN <<>>
    ELSE (IF Head(s) = old THEN new ELSE <<Head(s)>>)
             \o str_replace(Tail(s), old, new)

RECURSIVE lstrip(_)
lstrip(s) ==
    IF s # <<>> /\ IsSpace(Head(s)) THEN lstrip(Tail(s)) ELSE s

RECURSIVE rstrip(_)
rstrip(s) ==
    IF s # <<>> /\ IsSpace(s[Len(s)])
    THEN rstrip(SubSeq(s, 1, Len(s) - 1)) ELSE s

\* s.strip()
strip(s) == rstrip(lstrip(s))

RECURSIVE DigitsVal(_)
DigitsVal(s) ==
    IF s = <<>> THEN 0
    ELSE DigitsVal(SubSeq(s, 1, Len(s) - 1)) * 10 + DigitVal(s[Len(s)])

RECURSIVE NatStr(_)
NatStr(n) ==
    IF n < 10 THEN <<Digits[n + 1]>>
    ELSE NatStr(n \div 10) \o <<Digits[(n % 10) + 1]>>

RECURSIVE Pow10(_)
Pow10(e) == IF e = 0 THEN 1 ELSE 10 * Pow10(e - 1)

RECURSIVE PadLeft(_, _)
PadLeft(s, w) == IF Len(s) >= w THEN s ELSE PadLeft(<<"0">> \o s, w)

AllDigits(s) == \A i \in 1..Len(s) : IsDigit(s[i])
LowerAll(s) == [i \in 1..Len(s) |-> Lower(s[i])]

(***************************************************************************)
(* float(s) of Python for a str s: [ok, val].  Optional surrounding white  *)
(* space, an optional sign, then inf / infinity / nan in any case, or a    *)
(* decimal literal with at least one digit.  Exponents and digit           *)
(* separators are outside the alphabet of the cells of this model.         *)
(***************************************************************************)
PyFloatUnsigned(u) ==
    LET w == LowerAll(u)
        dots == {i \in 1..Len(u) : u[i] = "."}
        p == IF dots = {} THEN Len(u) + 1 ELSE CHOOSE i \in dots : TRUE
        ip == SubSeq(u, 1, p - 1)
        fp == SubSeq(u, p + 1, Len(u))
    IN  IF w = <<"i", "n", "f">>
           \/ w = <<"i", "n", "f", "i", "n", "i", "t", "y">>
        THEN [ok |-> TRUE, val |-> Inf(1)]
        ELSE IF w = <<"n", "a", "n">> THEN [ok |-> TRUE, val |-> FNaN]
        ELSE IF Cardinality(dots) <= 1 /\ AllDigits(ip) /\ AllDigits(fp)
                /\ Len(ip) + Len(fp) > 0
        THEN [ok |-> TRUE, val |-> Normal(DigitsVal(ip \o fp), Len(fp))]
        ELSE [ok |-> FALSE, val |-> Zero]

PyFloat(s) ==
    LET u == strip(s)
        signed == u # <<>> /\ Head(u) \in {"+", "-"}
        r == PyFloatUnsigned(IF signed THEN Tail(u) ELSE u)
    IN  IF signed /\ Head(u) = "-" THEN [r EXCEPT !.val = Neg(r.val)] ELSE r

\* repr of a float, as str(x) gives it
FloatStr(x) ==
    IF x.k = "nan" THEN <<"n", "a", "n">>
    ELSE LET sg == IF x.m < 0 THEN <<"-">> ELSE <<>>
             a == IF x.m < 0 THEN 0 - x.m ELSE x.m
         IN  IF x.k = "inf" THEN sg \o <<"i", "n", "f">>
             ELSE sg \o NatStr(a \div Pow10(x.e)) \o <<".">>
                     \o (IF x.e = 0 THEN <<"0">>
                         ELSE PadLeft(NatStr(a % Pow10(x.e)), x.e))

\* str(x)
PyStr(x) ==
    CASE x.t = "str" -> x.s
      [] x.t = "int" ->
            (IF x.n < 0 THEN <<"-">> \o NatStr(0 - x.n) ELSE NatStr(x.n))
      [] x.t = "float" -> FloatStr(x.f[1])
      [] OTHER -> <<"n", "a", "n">>

\* sanitize_str: str(x).strip()
sanitize_str(x) == strip(PyStr(x))

\* pd.isna(v)
isna(v) == v.t = "nan"

\* a plausible slip: a text without a comma taken as dot-decimal
to_float_ponto_decimal(v) ==
    IF isna(v) \/ v = Str(<<>>) THEN Zero
    ELSE IF v.t = "str"
    THEN LET r == PyFloat(IF \E n \in 1..Len(v.s) : v.s[n] = ","
                          THEN strip(str_replace(str_replace(v.s, ".", <<>>),
                                                 ",", <<".">>))
                          ELSE strip(v.s))
         IN  IF r.ok THEN r.val ELSE Zero
    ELSE IF v.t = "int" THEN Fin(v.n, 0)
    ELSE v.f[1]

\* to_float
to_float(v) ==
    IF isna(v) \/ v = Str(<<>>) THEN Zero
    ELSE IF v.t = "str"
    THEN LET r == PyFloat(strip(str_replace(str_replace(v.s, ".", <<>>),
                                             ",", <<".">>)))
         IN  IF r.ok THEN r.val ELSE Zero
    ELSE IF v.t = "int" THEN Fin(v.n, 0)
    ELSE v.f[1]

(***************************************************************************)
(* Column resolution and row normalisation.                                *)
(***************************************************************************)
cCodigoA    == <<"C", "ó", "d", "i", "g", "o">>
cCodigo     == <<"C", "o", "d", "i", "g", "o">>
cDescricaoA == <<"D", "e", "s", "c", "r", "i", "ç", "ã", "o">>
cDescricao  == <<"D", "e", "s", "c", "r", "i", "c", "a", "o">>
cPorte      == <<"P", "o", "r", "t", "e">>
cUCO        == <<"U", "C", "O">>
cCH         == <<"C", "H">>
cFilme      == <<"F", "i", "l", "m", "e">>

\* mapa: canonical field -> ordered aliases
mapa ==
    [codigo    |-> <<cCodigoA, cCodigo>>,
     descricao |-> <<cDescricaoA, cDescricao>>,
     porte     |-> <<cPorte>>,
     uco       |-> <<cUCO, cCH>>,
     filme     |-> <<cFilme>>]

Campos == {"codigo", "descricao", "porte", "uco", "filme"}
Numericos == {"porte", "uco", "filme"}

\* None
Nenhum == <<>>

InCols(c, cols) == \E j \in 1..Len(cols) : cols[j] = c

\* a plausible slip: the last alias present wins
ultimo(opts, cols) ==
    LET hits == {j \in 1..Len(opts) : InCols(opts[j], cols)}
    IN  IF hits = {} THEN Nenhum
        ELSE opts[CHOOSE j \in hits : \A q \in hits : q <= j]

\* next((c for c in opts if c in df.columns), None)
primeiro(opts, cols) ==
    LET hits == {j \in 1..Len(opts) : InCols(opts[j], cols)}
    IN  IF hits = {} THEN Nenhum
        ELSE opts[CHOOSE j \in hits : \A q \in hits : j <= q]

\* row[c] when the label c names one column
loc(row, cols, c) == row[CHOOSE j \in 1..Len(cols) : cols[j] = c]

\* row[c] is a Series, not a scalar, when the label c names several columns
duplicada(cols, c) == Cardinality({j \in 1..Len(cols) : cols[j] = c}) > 1

RECURSIVE extrair_valor(_, _, _)
\* extrair_valor(row, df, col_opts)
extrair_valor(row, cols, col_opts) ==
    IF col_opts = <<>> THEN Zero
    ELSE IF InCols(Head(col_opts), cols)
    THEN to_float(loc(row, cols, Head(col_opts)))
    ELSE extrair_valor(row, cols, Tail(col_opts))

\* df.columns = [c.strip() for c in df.columns] raises on a header that is
\* not a str
cabecalho_falha(raw) == \E j \in 1..Len(raw) : raw[j].t # "str"
colunas(raw) == [j \in 1..Len(raw) |-> strip(raw[j].s)]

\* a plausible slip: "and" for "or" in the test of the mandatory columns
colunas_invalidas_e(cols) ==
    primeiro(mapa.codigo, cols) = Nenhum
    /\ primeiro(mapa.descricao, cols) = Nenhum

\* cod_col is None or desc_col is None
colunas_invalidas(cols) ==
    primeiro(mapa.codigo, cols) = Nenhum
    \/ primeiro(mapa.descricao, cols) = Nenhum

\* the body of the row loop raises: to_float(row[c]) raises ValueError
\* (truth value of a Series) when the column used for a field is
\* duplicated, and row[None] raises KeyError
linha_falha(cols) ==
    \/ \E campo \in Campos :
           LET c == primeiro(mapa[campo], cols)
           IN  c # Nenhum /\ duplicada(cols, c)
    \/ primeiro(mapa.codigo, cols) = Nenhum
    \/ primeiro(mapa.descricao, cols) = Nenhum

\* the tuple appended to dados_lista for one row
registro(row, cols, v) ==
    [codigo    |-> sanitize_str(loc(row, cols, primeiro(mapa.codigo, cols))),
     descricao |-> sanitize_str(loc(row, cols, primeiro(mapa.descricao, cols))),
     porte     |-> extrair_valor(row, cols, mapa.porte),
     uco       |-> extrair_valor(row, cols, mapa.uco),
     filme     |-> extrair_valor(row, cols, mapa.filme),
     versao    |-> v]

\* not (not cod or not desc)
valida(r) == r.codigo # <<>> /\ r.descricao # <<>>

\* the indices of the rows of the frame that are kept, in order
validas(rows, cols, v) ==
    SelectSeq([q \in 1..Len(rows) |-> q],
              LAMBDA q : valida(registro(rows[q], cols, v)))

\* dados_lista after the row loop
normalizar(rows, cols, v) ==
    LET ix == validas(rows, cols, v)
    IN  [q \in 1..Len(ix) |-> registro(rows[ix[q]], cols, v)]

(***************************************************************************)
(* The two tables.  procedimentos is a bag of rows (the id column is left  *)
(* out), so that the UNIQUE (codigo, versao) constraint is a property of   *)
(* the statements and not of the representation.                           *)
(***************************************************************************)
MesmaChave(a, b) == a.codigo = b.codigo /\ a.versao = b.versao

\* a REAL parameter bound from a float NaN is NULL
Nulo(r) == \E c \in Numericos : r[c].k = "nan"

\* a plausible slip: plain INSERT on a table without the UNIQUE constraint
insert_sem_unique(P, r) ==
    IF Nulo(r) THEN P ELSE P (+) SetToBag({r})

\* a plausible slip: INSERT OR REPLACE
insert_or_replace(P, r) ==
    IF Nulo(r) THEN P
    ELSE LET keep == {y \in DOMAIN P : ~MesmaChave(y, r)}
         IN  [y \in keep |-> P[y]] (+) SetToBag({r})

\* INSERT OR IGNORE INTO procedimentos: a row that violates NOT NULL or
\* UNIQUE (codigo, versao) is skipped
insert_or_ignore(P, r) ==
    IF Nulo(r) \/ \E y \in DOMAIN P : MesmaChave(y, r) THEN P
    ELSE P (+) SetToBag({r})

RECURSIVE executemany(_, _)
\* cur.executemany(SQL_INSERT, rows): the statement once per tuple, in order
executemany(P, rows) ==
    IF rows = <<>> THEN P
    ELSE executemany(insert_or_ignore(P, Head(rows)), Tail(rows))

\* INSERT OR IGNORE INTO arquivos_importados (hash UNIQUE)
insert_hash(A, hsh, v) ==
    IF \E y \in A : y.hash = hsh THEN A
    ELSE A \cup {[hash |-> hsh, versao |-> v]}

\* SELECT DISTINCT versao FROM procedimentos
versoes(P) == {r.versao : r \in DOMAIN P}

(***************************************************************************)
(* Uploaded files.  A file is a name and a byte content; bytes n stands    *)
(* for the n-th byte string of the table Conteudo, which gives what        *)
(* read_csv_smart and pd.read_excel make of those bytes: an error or a     *)
(* DataFrame (headers as parsed, cells as the Python values iterrows       *)
(* yields).                                                                *)
(***************************************************************************)
Erro == [ok |-> FALSE, columns |-> <<>>, rows |-> <<>>]
Frame(cols, rows) == [ok |-> TRUE, columns |-> cols, rows |-> rows]

\* scenario 1 of the specification: Código;Descrição;Porte;UCO;Filme
Tabela1 ==
    Frame(<<Str(cCodigoA), Str(cDescricaoA), Str(cPorte), Str(cUCO), Str(cFilme)>>,
          << <<IntV(10101012), Str(<<"C", "o", "n", "s", "u", "l", "t", "a">>), Str(<<"1", "0", "0", ",", "5", "0">>), Str(<<"2", ",", "0">>), IntV(0)>> >>)

\* no description column
Tabela2 ==
    Frame(<<Str(cCodigoA), Str(cPorte)>>,
          << <<IntV(10101012), Str(<<"1", "0", "0", ",", "5", "0">>)>> >>)

\* both aliases of codigo, descricao and uco, the later alias first, padded
\* headers; the second row has an empty cell under the first alias of codigo
Tabela3 ==
    Frame(<<Str(cCodigo), Str(<<" ">> \o cCodigoA), Str(cDescricao),
            Str(cDescricaoA \o <<" ">>), Str(cCH), Str(cUCO)>>,
          << <<Str(<<"B", "1">>), Str(<<"A", "1">>), Str(<<"v", "e", "l", "h", "a">>), Str(<<"n", "o", "v", "a">>), IntV(7), Str(<<"a", "b", "c">>)>>,
             <<Str(<<"B", "2">>), NaN, Str(<<"v", "e", "l", "h", "a">>), Str(<<"n", "o", "v", "a">>), IntV(7), NaN>> >>)

\* a repeated key, blank mandatory cells and numeric cells of every kind
Tabela5 ==
    Frame(<<Str(cCodigoA), Str(cDescricaoA), Str(cPorte), Str(cUCO), Str(cFilme)>>,
          << <<Str(<<"A", "1">>), Str(<<"p", "r", "i", "m", "e", "i", "r", "a">>), Str(<<"1", ".", "2", "3", "4", ",", "5", "6">>), Str(<<"a", "b", "c">>), NaN>>,
             <<Str(<<" ", "A", "1", " ">>), Str(<<"s", "e", "g", "u", "n", "d", "a">>), FloatV(Fin(25, 1)), IntV(3), Str(<<>>)>>,
             <<Str(<<" ">>), Str(<<"s", "e", "g", "u", "n", "d", "a">>), IntV(1), IntV(1), IntV(1)>>,
             <<Str(<<"A", "2">>), NaN, Str(<<"-", "5">>), Str(<<"i", "n", "f">>), Str(<<"1", "2", "3", "4", ".", "5", "6">>)>>,
             <<Str(<<"A", "3">>), Str(<<"p", "r", "i", "m", "e", "i", "r", "a">>), IntV(1), Str(<<" ", "n", "a", "n">>), Str(<<" ">>)>> >>)

\* the mandatory columns and no valid row
Tabela6 ==
    Frame(<<Str(cCodigoA), Str(cDescricaoA)>>,
          << <<Str(<<" ">>), Str(<<"p", "r", "i", "m", "e", "i", "r", "a">>)>>, <<Str(<<"A", "1">>), Str(<<>>)>> >>)

\* two headers that trim to the same label
Tabela7 ==
    Frame(<<Str(cCodigoA), Str(cCodigoA \o <<" ">>), Str(cDescricaoA)>>,
          << <<Str(<<"A", "1">>), Str(<<"A", "2">>), Str(<<"p", "r", "i", "m", "e", "i", "r", "a">>)>> >>)

\* a spreadsheet with a numeric header
Tabela8 ==
    Frame(<<Str(cCodigoA), Str(cDescricaoA), IntV(2022)>>,
          << <<Str(<<"A", "1">>), Str(<<"p", "r", "i", "m", "e", "i", "r", "a">>), IntV(1)>> >>)

\* what the CSV reader makes of a spreadsheet's bytes: one junk column
Lixo == Frame(<<Str(<<"P", "K">>)>>, <<>>)

Conteudo(b) ==
    CASE b = 1 -> [csv |-> Tabela1, excel |-> Erro]
      [] b = 2 -> [csv |-> Tabela2, excel |-> Erro]
      [] b = 3 -> [csv |-> Tabela3, excel |-> Erro]
      [] b = 4 -> [csv |-> Erro, excel |-> Erro]
      [] b = 5 -> [csv |-> Lixo, excel |-> Tabela5]
      [] b = 6 -> [csv |-> Lixo, excel |-> Tabela6]
      [] b = 7 -> [csv |-> Tabela7, excel |-> Erro]
      [] OTHER -> [csv |-> Lixo, excel |-> Tabela8]

Arq(nome, b) == [name |-> nome, bytes |-> b]
ExtCsv  == <<".", "c", "s", "v">>
ExtCSV  == <<".", "C", "S", "V">>
ExtXlsx == <<".", "x", "l", "s", "x">>

\* the sets of files a user has at hand for the uploader
Pastas ==
    { {Arq(<<"a">> \o ExtCsv, 1), Arq(<<"b">> \o ExtCSV, 1),
       Arq(<<"c">> \o ExtCsv, 2)},
      {Arq(<<"d">> \o ExtCsv, 3), Arq(<<"e">> \o ExtXlsx, 4),
       Arq(<<"f">> \o ExtXlsx, 5)},
      {Arq(<<"g">> \o ExtXlsx, 6), Arq(<<"a">> \o ExtXlsx, 1),
       Arq(<<"f">> \o ExtXlsx, 5)},
      {Arq(<<"h">> \o ExtCsv, 7), Arq(<<"i">> \o ExtXlsx, 8),
       Arq(<<"a">> \o ExtCsv, 1)} }

\* the version labels a user types; "" is the empty input
Rotulos == {"", "2022", "2023"}

\* at most this many files in one upload
MaxArquivos == 2

\* rows per executemany; 5000 in the source (CHUNK), scaled to the frames
CHUNK == 2

Listas(S) == UNION {[1..n -> S] : n \in 0..MaxArquivos}

\* str.lower() on the letters of a file extension
LowerExt(c) ==
    CASE c = "C" -> "c" [] c = "S" -> "s" [] c = "V" -> "v" [] OTHER -> c

\* arq.name.lower().endswith(".csv")
eh_csv(nome) ==
    Len(nome) >= 4
    /\ [q \in 1..4 |-> LowerExt(nome[Len(nome) - 4 + q])] = ExtCsv

\* hashlib.sha256 of the bytes, taken as collision free
sha256(b) == <<"sha256", b>>

\* gerar_hash_arquivo
gerar_hash_arquivo(arq) == sha256(arq.bytes)

\* read_csv_smart(arq) for a .csv name, pd.read_excel(arq) otherwise
ler(arq) ==
    IF eh_csv(arq.name) THEN Conteudo(arq.bytes).csv
    ELSE Conteudo(arq.bytes).excel

(***************************************************************************)
(* salvar_banco_github: the requests of one call and the warning it ends   *)
(* with, for every response of the GitHub API.  A GET answers 200 (the     *)
(* file's sha), 404 (no file) or fails ("erro": a network error, or a body *)
(* that is not the expected JSON); a PUT answers 200, 201, 409 (stale sha) *)
(* or fails.  Every exception is caught by the handler of line 224.        *)
(***************************************************************************)
Pedido(m, sha, st) == [m |-> m, sha |-> sha, st |-> st]

\* warn_user(...)
warn_user == Pedido("warn_user", "", "")

RespostasGET == {"200", "404", "erro"}
RespostasPUT == {"200", "201", "409", "erro"}

\* a plausible slip: the retry sends the same payload again, without the GET
salvar_sem_refetch(retry) ==
    {<<warn_user>>}
    \cup UNION {
        LET get1 == Pedido("GET", "", g1)
            sha  == IF g1 = "200" THEN "sha" ELSE ""
        IN  IF g1 = "erro" THEN {<<get1, warn_user>>}
            ELSE UNION {
                LET put1 == Pedido("PUT", sha, p1)
                IN  IF p1 \in {"200", "201"} THEN {<<get1, put1>>}
                    ELSE IF p1 = "erro" \/ retry = 0
                    THEN {<<get1, put1, warn_user>>}
                    ELSE {<<get1, put1, Pedido("PUT", sha, p2)>>
                              \o (IF p2 \in {"200", "201"} THEN <<>>
                                  ELSE <<warn_user>>) : p2 \in RespostasPUT}
                : p1 \in RespostasPUT}
        : g1 \in RespostasGET}

\* salvar_banco_github(msg, retry): the runs the responses allow.  The first
\* run is the one without secrets, or with a database file that cannot be
\* read: a warning and no request.
salvar_banco_github(retry) ==
    {<<warn_user>>}
    \cup UNION {
        LET get1 == Pedido("GET", "", g1)
            sha  == IF g1 = "200" THEN "sha" ELSE ""
        IN  IF g1 = "erro" THEN {<<get1, warn_user>>}
            ELSE UNION {
                LET put1 == Pedido("PUT", sha, p1)
                IN  IF p1 \in {"200", "201"} THEN {<<get1, put1>>}
                    ELSE IF p1 = "erro" \/ retry = 0
                    THEN {<<get1, put1, warn_user>>}
                    ELSE UNION {
                        LET get2 == Pedido("GET", "", g2)
                            sha2 == IF g2 = "200" THEN "sha2" ELSE sha
                        IN  IF g2 = "erro"
                            THEN {<<get1, put1, get2, warn_user>>}
                            ELSE {<<get1, put1, get2, Pedido("PUT", sha2, p2)>>
                                      \o (IF p2 \in {"200", "201"} THEN <<>>
                                          ELSE <<warn_user>>)
                                  : p2 \in RespostasPUT}
                        : g2 \in RespostasGET}
                : p1 \in RespostasPUT}
        : g1 \in RespostasGET}

(***************************************************************************)
(* State.                                                                  *)
(***************************************************************************)
VARIABLES
    pasta,                 \* the files at hand for the uploader
    procedimentos,         \* the table as the shared connection sees it
    arquivos_importados,   \* the fingerprint table, likewise
    disco,                 \* both tables as of the last commit
    pc,                    \* "idle" or the position inside importar
    arquivos, versao,      \* importar's arguments
    idx,                   \* the file of the list being handled
    arquivos_processados,  \* importar's counter
    dados_lista,           \* the normalised rows of the current file
    i,                     \* offset of the next chunk in dados_lista
    prog,                  \* the progress texts shown, one per file
    saida,                 \* what the last handler returned or reported
    github,                \* salvar_banco_github calls of the last handler
    outra,                 \* another session on the shared connection:
                           \*   where it is in Gerenciar, and its v_del
    tf_v, tf_ret,          \* an argument of to_float and what it returned
    file_bytes, sniffed    \* a buffer given to read_csv_smart and the
                           \*   (encoding, delimiter) it settled on

banco == <<procedimentos, arquivos_importados, disco>>
locais == <<arquivos, versao, idx, arquivos_processados, dados_lista, i, prog>>
\* what a step of importar or of Gerenciar in this session leaves alone
avulsos == <<outra, tf_v, tf_ret, file_bytes, sniffed>>
vars == <<pasta, procedimentos, arquivos_importados, disco, pc, arquivos,
          versao, idx, arquivos_processados, dados_lista, i, prog, saida,
          github, outra, tf_v, tf_ret, file_bytes, sniffed>>

\* what a handler returned (ret) and the message it showed (msg)
Saida(ret, msg) == [ret |-> ret, msg |-> msg]

\* a call of salvar_banco_github with the default retry=1, as importar and
\* Gerenciar make it
Sincronizar(op, v, n) ==
    \E t \in salvar_banco_github(1) :
        github' = <<[op |-> op, versao |-> v, n |-> n, pedidos |-> t]>>

\* the database after baixar_banco and criar_tabelas on a fresh clone
Init ==
    /\ pasta \in Pastas
    /\ procedimentos = EmptyBag
    /\ arquivos_importados = {}
    /\ disco = [procedimentos |-> EmptyBag, arquivos_importados |-> {}]
    /\ pc = "idle"
    /\ arquivos = <<>>
    /\ versao = ""
    /\ idx = 0
    /\ arquivos_processados = 0
    /\ dados_lista = <<>>
    /\ i = 0
    /\ prog = <<>>
    /\ saida = Saida("nenhum", "")
    /\ github = <<>>
    /\ outra = [pc |-> "idle", v_del |-> ""]
    /\ tf_v = NaN
    /\ tf_ret = <<>>
    /\ file_bytes = <<>>
    /\ sniffed = <<>>

\* gerenciar_db on a normal exit of the with block: con.commit()
gerenciar_db_commit(P, A) ==
    disco' = [procedimentos |-> P, arquivos_importados |-> A]

\* a plausible slip: the empty-label guard left out
importar_sem_guarda(arqs, v) ==
    /\ arquivos' = arqs
    /\ versao' = v
    /\ idx' = 1
    /\ arquivos_processados' = 0
    /\ dados_lista' = <<>>
    /\ i' = 0
    /\ prog' = <<>>
    /\ pc' = IF arqs = <<>> THEN "fim" ELSE "arquivo"
    /\ saida' = Saida("nenhum", "")
    /\ github' = <<>>
    /\ UNCHANGED <<avulsos, pasta, banco>>

\* importar up to the with block: the empty-label guard and the locals
importar_entrada(arqs, v) ==
    IF v = ""
    THEN /\ saida' = Saida("False", "Informe a Versão CBHPM.")
         /\ github' = <<>>
         /\ UNCHANGED <<avulsos, pasta, banco, pc, locais>>
    ELSE /\ arquivos' = arqs
         /\ versao' = v
         /\ idx' = 1
         /\ arquivos_processados' = 0
         /\ dados_lista' = <<>>
         /\ i' = 0
         /\ prog' = <<>>
         /\ pc' = IF arqs = <<>> THEN "fim" ELSE "arquivo"
         /\ saida' = Saida("nenhum", "")
         /\ github' = <<>>
         /\ UNCHANGED <<avulsos, pasta, banco>>

\* a call of importar(arquivos, versao)
Importar(arqs, v) ==
    /\ pc = "idle"
    /\ importar_entrada(arqs, v)

\* the submit handler of form_importacao, which calls importar on the rerun
FormImportacao(v_imp_input, arqs_input) ==
    /\ pc = "idle"
    /\ IF v_imp_input = "" \/ arqs_input = <<>>
       THEN /\ saida' = Saida("nenhum", "Preencha o nome da versão e selecione os arquivos.")
            /\ github' = <<>>
            /\ UNCHANGED <<avulsos, pasta, banco, pc, locais>>
       ELSE importar_entrada(arqs_input, v_imp_input)

\* a plausible slip: break for continue after a read error
Proximo_break(tag) ==
    /\ prog' = Append(prog, tag)
    /\ idx' = idx + 1
    /\ pc' = IF idx = Len(arquivos) \/ tag = "erro_leitura"
             THEN "fim" ELSE "arquivo"
    /\ dados_lista' = <<>>
    /\ i' = 0

\* prog.progress(..., text=tag) and on to the next file of the list
Proximo(tag) ==
    /\ prog' = Append(prog, tag)
    /\ idx' = idx + 1
    /\ pc' = IF idx = Len(arquivos) THEN "fim" ELSE "arquivo"
    /\ dados_lista' = <<>>
    /\ i' = 0

\* a plausible slip: the lookup narrowed to the label of the call
ja_importado_versao(A, hsh) ==
    \E y \in A : y.hash = hsh /\ y.versao = versao

\* SELECT 1 FROM arquivos_importados WHERE hash=?
ja_importado(A, hsh) == \E y \in A : y.hash = hsh

\* one file of the loop, from its fingerprint to dados_lista
ArquivoPasso ==
    /\ pc = "arquivo"
    /\ LET arq == arquivos[idx]
           lido == ler(arq)
           cols == colunas(lido.columns)
       IN  IF ja_importado(arquivos_importados, gerar_hash_arquivo(arq))
           THEN Proximo("ja_importado")
           ELSE IF ~lido.ok THEN Proximo("erro_leitura")
           ELSE IF cabecalho_falha(lido.columns) THEN Proximo("falha")
           ELSE IF colunas_invalidas(cols) THEN Proximo("colunas_invalidas")
           ELSE IF lido.rows # <<>> /\ linha_falha(cols) THEN Proximo("falha")
           ELSE LET dados == normalizar(lido.rows, cols, versao)
                IN  /\ dados_lista' = dados
                    /\ i' = 0
                    /\ pc' = IF dados = <<>> THEN "registrar" ELSE "inserir"
                    /\ UNCHANGED <<prog, idx>>
    /\ UNCHANGED <<avulsos, pasta, banco, arquivos, versao, arquivos_processados,
                   saida, github>>

\* dados_lista[i:i+CHUNK]
chunk == SubSeq(dados_lista, i + 1,
                IF i + CHUNK < Len(dados_lista) THEN i + CHUNK
                ELSE Len(dados_lista))

\* one executemany of the chunk loop
InserirChunk ==
    /\ pc = "inserir"
    /\ procedimentos' = executemany(procedimentos, chunk)
    /\ i' = i + CHUNK
    /\ pc' = IF i + CHUNK >= Len(dados_lista) THEN "registrar" ELSE "inserir"
    /\ UNCHANGED <<avulsos, pasta, arquivos_importados, disco, arquivos, versao, idx,
                   arquivos_processados, dados_lista, prog, saida, github>>

\* a plausible slip: the fingerprint written ahead of the rows, so that it
\* is there when executemany raises
InserirFalha_registra ==
    /\ pc = "inserir"
    /\ \E n \in 0..(Len(chunk) - 1) :
           procedimentos' = executemany(procedimentos, SubSeq(chunk, 1, n))
    /\ arquivos_importados' =
           insert_hash(arquivos_importados,
                       gerar_hash_arquivo(arquivos[idx]), versao)
    /\ Proximo("falha")
    /\ UNCHANGED <<avulsos, pasta, disco, arquivos, versao, arquivos_processados,
                   saida, github>>

\* executemany raises (sqlite3.Error) after n rows of the chunk; the rows
\* stay in the open transaction and the handler of line 305 takes over
InserirFalha ==
    /\ pc = "inserir"
    /\ \E n \in 0..(Len(chunk) - 1) :
           procedimentos' = executemany(procedimentos, SubSeq(chunk, 1, n))
    /\ Proximo("falha")
    /\ UNCHANGED <<avulsos, pasta, arquivos_importados, disco, arquivos, versao,
                   arquivos_processados, saida, github>>

\* the fingerprint row, the counter and the progress text
Registrar ==
    /\ pc = "registrar"
    /\ arquivos_importados' =
           insert_hash(arquivos_importados,
                       gerar_hash_arquivo(arquivos[idx]), versao)
    /\ arquivos_processados' = arquivos_processados + 1
    /\ Proximo("importado")
    /\ UNCHANGED <<avulsos, pasta, procedimentos, disco, arquivos, versao, saida,
                   github>>

\* the fingerprint INSERT raises (sqlite3.Error)
RegistrarFalha ==
    /\ pc = "registrar"
    /\ Proximo("falha")
    /\ UNCHANGED <<avulsos, pasta, banco, arquivos, versao, arquivos_processados,
                   saida, github>>

\* the end of the with block (commit), the synchronisation and the return
Fim ==
    /\ pc = "fim"
    /\ gerenciar_db_commit(procedimentos, arquivos_importados)
    /\ IF arquivos_processados > 0
       THEN /\ Sincronizar("Importação", versao, arquivos_processados)
            /\ saida' = Saida("True", "")
       ELSE /\ github' = github
            /\ saida' = Saida("False", "")
    /\ pc' = "idle"
    /\ arquivos' = <<>>
    /\ versao' = ""
    /\ idx' = 0
    /\ arquivos_processados' = 0
    /\ dados_lista' = <<>>
    /\ i' = 0
    /\ prog' = <<>>
    /\ UNCHANGED <<avulsos, pasta, procedimentos, arquivos_importados>>

\* DELETE FROM procedimentos WHERE versao=?
delete_procedimentos(P, v) ==
    [y \in {z \in DOMAIN P : z.versao # v} |-> P[y]]

\* a plausible slip: the second DELETE left out, the fingerprints stay
delete_so_procedimentos(A, v) == A

\* DELETE FROM arquivos_importados WHERE versao=?
delete_arquivos(A, v) == {y \in A : y.versao # v}

\* the Deletar Versão button of the Gerenciar tab
Gerenciar(v_del, confirmar) ==
    /\ pc = "idle"
    /\ v_del \in versoes(procedimentos)
    /\ IF confirmar
       THEN /\ procedimentos' = delete_procedimentos(procedimentos, v_del)
            /\ arquivos_importados' = delete_arquivos(arquivos_importados, v_del)
            /\ gerenciar_db_commit(procedimentos', arquivos_importados')
            /\ Sincronizar("Remoção", v_del, 0)
            /\ saida' = Saida("nenhum", "Versão removida!")
       ELSE /\ saida' = Saida("nenhum", "Marque a confirmação para prosseguir.")
            /\ github' = <<>>
            /\ UNCHANGED banco
    /\ UNCHANGED <<avulsos, pasta, pc, locais>>

Next ==
    \/ \E arqs \in Listas(pasta), v \in Rotulos : Importar(arqs, v)
    \/ \E arqs \in Listas(pasta), v \in Rotulos : FormImportacao(v, arqs)
    \/ ArquivoPasso
    \/ InserirChunk
    \/ InserirFalha
    \/ Registrar
    \/ RegistrarFalha
    \/ Fim
    \/ \E v \in Rotulos, c \in BOOLEAN : Gerenciar(v, c)

Spec == Init /\ [][Next]_vars


(***************************************************************************)
(* Two sessions.  get_connection is cached (st.cache_resource), so every   *)
(* session works on one sqlite3 connection and one open transaction: the   *)
(* statements of another session fall between the steps of importar, and   *)
(* its commit or rollback acts on the rows importar has inserted so far.   *)
(* The other session's own salvar_banco_github call is not followed.       *)
(***************************************************************************)
\* Gerenciar in the other session: DELETE FROM procedimentos WHERE versao=?
OutraDelProc(v) ==
    /\ outra.pc = "idle"
    /\ v \in versoes(procedimentos)
    /\ procedimentos' = delete_procedimentos(procedimentos, v)
    /\ outra' = [pc |-> "del_arq", v_del |-> v]
    /\ UNCHANGED <<pasta, arquivos_importados, disco, pc, locais, saida,
                   github, tf_v, tf_ret, file_bytes, sniffed>>

\* ... DELETE FROM arquivos_importados WHERE versao=?
OutraDelArq ==
    /\ outra.pc = "del_arq"
    /\ arquivos_importados' = delete_arquivos(arquivos_importados, outra.v_del)
    /\ outra' = [outra EXCEPT !.pc = "commit"]
    /\ UNCHANGED <<pasta, procedimentos, disco, pc, locais, saida, github,
                   tf_v, tf_ret, file_bytes, sniffed>>

\* ... the end of its with block: con.commit()
OutraCommit ==
    /\ outra.pc = "commit"
    /\ gerenciar_db_commit(procedimentos, arquivos_importados)
    /\ outra' = [pc |-> "idle", v_del |-> ""]
    /\ UNCHANGED <<pasta, procedimentos, arquivos_importados, pc, locais,
                   saida, github, tf_v, tf_ret, file_bytes, sniffed>>

\* the start of a script run in the other session: criar_tabelas, whose
\* with block commits on the shared connection
OutraCriarTabelas ==
    /\ outra.pc = "idle"
    /\ gerenciar_db_commit(procedimentos, arquivos_importados)
    /\ UNCHANGED <<pasta, procedimentos, arquivos_importados, pc, locais,
                   saida, github, outra, tf_v, tf_ret, file_bytes, sniffed>>

\* gerenciar_db in the other session when its block raises: con.rollback()
OutraRollback ==
    /\ procedimentos' = disco.procedimentos
    /\ arquivos_importados' = disco.arquivos_importados
    /\ outra' = [pc |-> "idle", v_del |-> ""]
    /\ UNCHANGED <<pasta, disco, pc, locais, saida, github, tf_v, tf_ret,
                   file_bytes, sniffed>>

\* the files and the label of the two sessions
PastaConc == {Arq(<<"d">> \o ExtCsv, 3), Arq(<<"f">> \o ExtXlsx, 5)}
RotulosConc == {"2022"}

InitConc ==
    /\ pasta = PastaConc
    /\ procedimentos = EmptyBag
    /\ arquivos_importados = {}
    /\ disco = [procedimentos |-> EmptyBag, arquivos_importados |-> {}]
    /\ pc = "idle"
    /\ arquivos = <<>>
    /\ versao = ""
    /\ idx = 0
    /\ arquivos_processados = 0
    /\ dados_lista = <<>>
    /\ i = 0
    /\ prog = <<>>
    /\ saida = Saida("nenhum", "")
    /\ github = <<>>
    /\ outra = [pc |-> "idle", v_del |-> ""]
    /\ tf_v = NaN
    /\ tf_ret = <<>>
    /\ file_bytes = <<>>
    /\ sniffed = <<>>

NextConc ==
    \/ \E arqs \in Listas(pasta), v \in RotulosConc : FormImportacao(v, arqs)
    \/ ArquivoPasso
    \/ InserirChunk
    \/ InserirFalha
    \/ Registrar
    \/ RegistrarFalha
    \/ Fim
    \/ \E v \in RotulosConc : OutraDelProc(v)
    \/ OutraDelArq
    \/ OutraCommit
    \/ OutraCriarTabelas
    \/ OutraRollback

SpecConc == InitConc /\ [][NextConc]_vars

(***************************************************************************)
(* to_float on its own: one call on a cell drawn from the native numbers   *)
(* and from every text of up to MaxTexto characters of the alphabet of     *)
(* locale-formatted numbers, and on the three texts of the documentation.  *)
(***************************************************************************)
\* the longest text drawn from the alphabet
MaxTexto == 4

AlfabetoNumero == {"1", "5", ".", ",", " ", "-"}

Textos == UNION {[1..n -> AlfabetoNumero] : n \in 0..MaxTexto}

Exemplos ==
    {<<"1", ".", "2", "3", "4", ",", "5", "6">>,
     <<"1", "0", "0", ",", "5", "0">>,
     <<"1", "2", "3", "4", ".", "5", "6">>}

Celulas ==
    {Str(s) : s \in Textos \cup Exemplos}
    \cup {IntV(n) : n \in -1..2}
    \cup {FloatV(Fin(25, 1)), FloatV(Fin(-125, 2)), FloatV(Inf(1))}

InitToFloat ==
    /\ tf_v \in Celulas
    /\ tf_ret = <<>>
    /\ pasta = {}
    /\ procedimentos = EmptyBag
    /\ arquivos_importados = {}
    /\ disco = [procedimentos |-> EmptyBag, arquivos_importados |-> {}]
    /\ pc = "idle"
    /\ arquivos = <<>>
    /\ versao = ""
    /\ idx = 0
    /\ arquivos_processados = 0
    /\ dados_lista = <<>>
    /\ i = 0
    /\ prog = <<>>
    /\ saida = Saida("nenhum", "")
    /\ github = <<>>
    /\ outra = [pc |-> "idle", v_del |-> ""]
    /\ file_bytes = <<>>
    /\ sniffed = <<>>

\* the call to_float(tf_v)
ToFloat ==
    /\ tf_ret = <<>>
    /\ tf_ret' = <<to_float(tf_v)>>
    /\ UNCHANGED <<pasta, banco, pc, locais, saida, github, outra, tf_v,
                   file_bytes, sniffed>>

SpecToFloat == InitToFloat /\ [][ToFloat]_vars

(***************************************************************************)
(* read_csv_smart on its own, up to the (encoding, delimiter) it hands to  *)
(* pd.read_csv.  A byte is an ASCII letter or delimiter, the lead byte C3  *)
(* of a two-byte UTF-8 sequence, the continuation byte A9, or FF, which no *)
(* UTF-8 text holds.                                                       *)
(***************************************************************************)
\* the longest buffer
MaxBytes == 4

\* file.read(2048): 2048 in the source, scaled to the buffers
TamAmostra == 3

Bytes == {"a", ",", ";", "\t", "|", "C3", "A9", "FF"}

Buffers == UNION {[1..n -> Bytes] : n \in 0..MaxBytes}

delimiters == {",", ";", "\t", "|"}

RECURSIVE decode_utf8(_)
\* bs.decode("utf-8"): [ok, s], ok = FALSE for UnicodeDecodeError
decode_utf8(bs) ==
    IF bs = <<>> THEN [ok |-> TRUE, s |-> <<>>]
    ELSE IF Head(bs) = "C3"
    THEN IF Len(bs) >= 2 /\ bs[2] = "A9"
         THEN LET r == decode_utf8(Tail(Tail(bs)))
              IN  [ok |-> r.ok, s |-> <<"é">> \o r.s]
         ELSE [ok |-> FALSE, s |-> <<>>]
    ELSE IF Head(bs) \in {"A9", "FF"} THEN [ok |-> FALSE, s |-> <<>>]
    ELSE LET r == decode_utf8(Tail(bs))
         IN  [ok |-> r.ok, s |-> <<Head(bs)>> \o r.s]

\* bs.decode("latin-1", errors="ignore"): every byte is a character
decode_latin1(bs) ==
    [n \in 1..Len(bs) |->
        CASE bs[n] = "C3" -> "Ã" [] bs[n] = "A9" -> "©" [] bs[n] = "FF" -> "ÿ"
          [] OTHER -> bs[n]]

\* csv.Sniffer().sniff(sample_str, delimiters): one of the delimiters that
\* occur in the sample, or csv.Error
sniff(sample_str) ==
    {d \in delimiters : \E n \in 1..Len(sample_str) : sample_str[n] = d}
    \cup {"Error"}

\* a plausible slip: the sniffer called outside a try
read_csv_smart_sem_try(bs) ==
    LET sample_bytes == SubSeq(bs, 1, IF Len(bs) < TamAmostra THEN Len(bs)
                                      ELSE TamAmostra)
        u == decode_utf8(sample_bytes)
        sample_str == IF u.ok THEN u.s ELSE decode_latin1(sample_bytes)
    IN  {[enc |-> IF u.ok THEN "utf-8" ELSE "latin-1",
          sep |-> d, raised |-> d = "Error"] : d \in sniff(sample_str)}

\* read_csv_smart up to pd.read_csv: the decisions the sniffer allows
read_csv_smart(bs) ==
    LET sample_bytes == SubSeq(bs, 1, IF Len(bs) < TamAmostra THEN Len(bs)
                                      ELSE TamAmostra)
        u == decode_utf8(sample_bytes)
        sample_str == IF u.ok THEN u.s ELSE decode_latin1(sample_bytes)
    IN  {[enc |-> IF u.ok THEN "utf-8" ELSE "latin-1",
          sep |-> IF d = "Error" THEN ";" ELSE d,
          raised |-> FALSE] : d \in sniff(sample_str)}

InitSniffer ==
    /\ file_bytes \in Buffers
    /\ sniffed = <<>>
    /\ pasta = {}
    /\ procedimentos = EmptyBag
    /\ arquivos_importados = {}
    /\ disco = [procedimentos |-> EmptyBag, arquivos_importados |-> {}]
    /\ pc = "idle"
    /\ arquivos = <<>>
    /\ versao = ""
    /\ idx = 0
    /\ arquivos_processados = 0
    /\ dados_lista = <<>>
    /\ i = 0
    /\ prog = <<>>
    /\ saida = Saida("nenhum", "")
    /\ github = <<>>
    /\ outra = [pc |-> "idle", v_del |-> ""]
    /\ tf_v = NaN
    /\ tf_ret = <<>>

\* the call read_csv_smart(file) up to its last line
ReadCsvSmart ==
    /\ sniffed = <<>>
    /\ \E d \in read_csv_smart(file_bytes) : sniffed' = <<d>>
    /\ UNCHANGED <<pasta, banco, pc, locais, saida, github, outra, tf_v,
                   tf_ret, file_bytes>>

SpecSniffer == InitSniffer /\ [][ReadCsvSmart]_vars

(***************************************************************************)
(* Properties.                                                             *)
(***************************************************************************)
Falhas == {"erro_leitura", "colunas_invalidas", "falha"}
Chaves(P) == {<<r.codigo, r.versao>> : r \in DOMAIN P}
TemHash(A, b) == \E y \in A : y.hash = <<"sha256", b>>
Elems(q) == {q[n] : n \in 1..Len(q)}

\* C1: while the fingerprint of a content is in arquivos_importados, a file
\* with those bytes met by the loop of importar, under any label and any
\* name, is skipped as already imported: both tables and the counter are
\* left as they are and the file gets the progress text "ja_importado".
C1_Idempotencia ==
    [][(pc = "arquivo" /\ TemHash(arquivos_importados, arquivos[idx].bytes))
        => /\ procedimentos' = procedimentos
           /\ arquivos_importados' = arquivos_importados
           /\ arquivos_processados' = arquivos_processados
           /\ prog' = Append(prog, "ja_importado")]_vars

\* a file skipped as already imported whose fingerprint is stored under
\* another label than the one of the call
C1_Witness ==
    \E n \in 1..Len(prog) :
        /\ prog[n] = "ja_importado"
        /\ \E y \in arquivos_importados :
               y.hash = <<"sha256", arquivos[n].bytes>> /\ y.versao # versao

\* C2: in every reachable state, in the connection's view and in the
\* committed database, no two rows of procedimentos share (codigo, versao).
C2_ChaveUnica ==
    \A P \in {procedimentos, disco.procedimentos} :
        \A r1 \in DOMAIN P :
            /\ P[r1] = 1
            /\ \A r2 \in DOMAIN P : MesmaChave(r1, r2) => r1 = r2

\* two files of one label that hold the same code are both recorded, one of
\* them with that code on two of its rows
C2_Witness ==
    /\ pc = "idle"
    /\ \E y1, y2 \in arquivos_importados :
           /\ y1.hash = <<"sha256", 3>>
           /\ y2.hash = <<"sha256", 5>>
           /\ y1.versao = y2.versao
    /\ procedimentos # EmptyBag

\* C3: while importar runs, a row that is stored stays stored as it is:
\* no insertion changes or removes it; and a chunk whose executemany
\* returns leaves every one of its keys stored (the row of the chunk or the
\* earlier row with that key), NULL-bound rows aside.
C3_NuncaSobrescreve ==
    [][pc # "idle" =>
        /\ \A r \in DOMAIN procedimentos :
               r \in DOMAIN procedimentos'
               /\ procedimentos'[r] = procedimentos[r]
        /\ (pc = "inserir" /\ i' = i + CHUNK) =>
               \A d \in Elems(chunk) :
                   Nulo(d) \/ <<d.codigo, d.versao>> \in Chaves(procedimentos')]_vars

\* all chunks of a file are in, and one of its rows met a stored row with
\* its key and other fields
C3_Witness ==
    /\ pc = "registrar"
    /\ \E d \in Elems(dados_lista) :
           \E r \in DOMAIN procedimentos : MesmaChave(r, d) /\ r # d

\* C4: a fingerprint row is written during importar only by the step that
\* follows the last chunk of the file being handled, after every chunk was
\* executed, for that file and the label of the call, together with the
\* text "importado"; a file that ends with a read error, invalid columns
\* or an exception leaves arquivos_importados as it was; and while the
\* call runs, the fingerprint of a file that failed is stored only if a
\* later entry of the list with the same bytes was imported.
C4_HashAposInsercao ==
    /\ [](\A n \in 1..Len(prog) :
             (prog[n] \in Falhas /\ TemHash(arquivos_importados, arquivos[n].bytes))
                 => \E q \in (n + 1)..Len(prog) :
                        /\ prog[q] = "importado"
                        /\ arquivos[q].bytes = arquivos[n].bytes)
    /\ [][pc # "idle" =>
        /\ arquivos_importados' # arquivos_importados =>
               /\ pc = "registrar"
               /\ i >= Len(dados_lista)
               /\ \A d \in Elems(dados_lista) :
                      Nulo(d) \/ <<d.codigo, d.versao>> \in Chaves(procedimentos)
               /\ arquivos_importados' = arquivos_importados \cup
                      {[hash |-> <<"sha256", arquivos[idx].bytes>>,
                        versao |-> versao]}
               /\ prog' = Append(prog, "importado")
        /\ (\E t \in Falhas : prog' = Append(prog, t)) =>
               arquivos_importados' = arquivos_importados]_vars

\* a file failed after some of its rows were inserted: a row of the file
\* is stored and its fingerprint is not
C4_Witness ==
    \E n \in 1..Len(prog) :
        /\ prog[n] = "falha"
        /\ arquivos[n].bytes = 5
        /\ ~TemHash(arquivos_importados, 5)
        /\ \E r \in DOMAIN procedimentos :
               /\ r.versao = versao
               /\ r.codigo = <<"A", "1">>
               /\ r.descricao = <<"p", "r", "i", "m", "e", "i", "r", "a">>

\* the trimmed headers of a readable frame
Cabecalhos(raw) == {strip(raw[j].s) : j \in 1..Len(raw)}

\* C5: a file not yet imported, readable, with text headers, none of which
\* trims to an alias of codigo or none of which trims to an alias of
\* descricao, is passed over: both tables and the counter are left as they
\* are, the text is "colunas_invalidas" and the loop goes on to the next
\* file of the list (or to the commit after the last one).
C5_ColunasObrigatorias ==
    [][(/\ pc = "arquivo"
        /\ ~TemHash(arquivos_importados, arquivos[idx].bytes)
        /\ ler(arquivos[idx]).ok
        /\ \A j \in 1..Len(ler(arquivos[idx]).columns) :
               ler(arquivos[idx]).columns[j].t = "str"
        /\ \/ Cabecalhos(ler(arquivos[idx]).columns) \cap {cCodigoA, cCodigo} = {}
           \/ Cabecalhos(ler(arquivos[idx]).columns)
                  \cap {cDescricaoA, cDescricao} = {})
        => /\ procedimentos' = procedimentos
           /\ arquivos_importados' = arquivos_importados
           /\ arquivos_processados' = arquivos_processados
           /\ prog' = Append(prog, "colunas_invalidas")
           /\ idx' = idx + 1
           /\ pc' = IF idx < Len(arquivos) THEN "arquivo" ELSE "fim"]_vars

\* a file without the description column, and a later file of the same
\* list imported
C5_Witness ==
    \E n, q \in 1..Len(prog) :
        /\ n < q
        /\ prog[n] = "colunas_invalidas"
        /\ arquivos[n].bytes = 2
        /\ prog[q] = "importado"

\* the order of the positions of one file inside the loop of importar
Fase(q) == CASE q = "arquivo" -> 1 [] q = "inserir" -> 2
             [] q = "registrar" -> 3 [] OTHER -> 0

\* C6: a file that ends with a read error, invalid columns or an exception
\* hands over to the next file of the list; importar is left only after
\* every file of the list got its progress text, by the commit of what
\* the connection holds and with a return value; a running call is always
\* at a position that has a step (the loop index within the list, or the
\* end of the loop just past it), and each step returns or moves forward
\* in the list (a later file, or a later position in the same file), so
\* that the call does return.
C6_FalhaIsolada ==
    /\ [](pc # "idle" =>
             /\ pc \in {"arquivo", "inserir", "registrar", "fim"}
             /\ idx \in 1..(Len(arquivos) + 1)
             /\ (pc = "fim") = (idx = Len(arquivos) + 1))
    /\ [][pc # "idle" =>
             \/ pc' = "idle"
             \/ idx' > idx
             \/ idx' = idx /\ Fase(pc') > Fase(pc)
             \/ idx' = idx /\ pc' = pc /\ i' > i /\ i < Len(dados_lista)]_vars
    /\ [][/\ (\E t \in Falhas : prog' = Append(prog, t)) =>
              /\ idx' = idx + 1
              /\ pc' = IF idx < Len(arquivos) THEN "arquivo" ELSE "fim"
       /\ (pc # "idle" /\ pc' = "idle") =>
              /\ Len(prog) = Len(arquivos)
              /\ disco' = [procedimentos |-> procedimentos,
                           arquivos_importados |-> arquivos_importados]
              /\ saida'.ret \in {"True", "False"}]_vars

\* the loop is over: a file failed (unreadable, or an exception) and a
\* later file of the list was imported
C6_Witness ==
    /\ pc = "fim"
    /\ \E n, q \in 1..Len(prog) :
           n < q /\ prog[n] \in {"erro_leitura", "falha"} /\ prog[q] = "importado"

\* C7: importar never runs its loop under an empty label, and the call
\* that reports the missing label returns False and leaves the tables,
\* the committed database and the locals as they were, with no call of
\* salvar_banco_github.
C7_RotuloVazio ==
    [][/\ (pc = "idle" /\ pc' # "idle") => versao' # ""
       /\ pc # "idle" => versao # ""
       /\ saida'.msg = "Informe a Versão CBHPM." =>
              /\ saida'.ret = "False"
              /\ github' = <<>>
              /\ UNCHANGED <<banco, pc, locais>>]_vars

\* importar has just rejected an empty label on a database that holds rows
C7_Witness ==
    /\ saida = Saida("False", "Informe a Versão CBHPM.")
    /\ procedimentos # EmptyBag
    /\ arquivos_importados # {}

\* a cell that is missing, empty or only white space
Vazia(c) == c.t = "nan" \/ (c.t = "str" /\ strip(c.s) = <<>>)

\* the first alias of the field, in the order of mapa, that is a header
PrimeiroAlias(campo, cols) ==
    IF mapa[campo][1] \in Elems(cols) THEN mapa[campo][1]
    ELSE IF Len(mapa[campo]) >= 2 /\ mapa[campo][2] \in Elems(cols)
    THEN mapa[campo][2]
    ELSE Nenhum

\* the cell of the row under the header c
Celula(row, cols, c) == row[CHOOSE j \in 1..Len(cols) : cols[j] = c]

\* the frame of the file whose rows are in dados_lista
FrameAtual == ler(arquivos[idx])
ColsAtuais == colunas(FrameAtual.columns)

\* C8: once the rows of a file are normalised, no row whose code cell or
\* description cell is missing, empty or only white space is in
\* dados_lista (the rows that get inserted).
C8_CamposObrigatorios ==
    pc \in {"inserir", "registrar"} =>
        \A q \in 1..Len(FrameAtual.rows) :
            LET row == FrameAtual.rows[q]
            IN  (\/ Vazia(Celula(row, ColsAtuais, PrimeiroAlias("codigo", ColsAtuais)))
                 \/ Vazia(Celula(row, ColsAtuais, PrimeiroAlias("descricao", ColsAtuais))))
                => \A d \in Elems(dados_lista) :
                       d # registro(row, ColsAtuais, versao)

\* text that reads as a decimal number once the thousands dots are dropped
\* and the decimal comma is made a dot: an optional sign, digits, at most
\* one decimal point
EhNumero(txt) ==
    LET u == strip(str_replace(str_replace(txt, ".", <<>>), ",", <<".">>))
        b == IF u # <<>> /\ Head(u) \in {"+", "-"} THEN Tail(u) ELSE u
    IN  /\ \E n \in 1..Len(b) : IsDigit(b[n])
        /\ \A n \in 1..Len(b) : IsDigit(b[n]) \/ b[n] = "."
        /\ Cardinality({n \in 1..Len(b) : b[n] = "."}) <= 1

\* the field has no column, or the cell is missing, empty or text that is
\* not a number
SemValor(row, cols, campo) ==
    \/ PrimeiroAlias(campo, cols) = Nenhum
    \/ LET c == Celula(row, cols, PrimeiroAlias(campo, cols))
       IN  c.t = "nan" \/ (c.t = "str" /\ ~EhNumero(c.s))

\* C9: a row kept by the normaliser carries exactly 0.0 in each numeric
\* field that has no column or whose cell is missing, empty or not a
\* number; and after the chunks of the file are executed the row's key is
\* stored.
C9_ZeroNaFalha ==
    pc \in {"inserir", "registrar"} =>
        \A n \in 1..Len(dados_lista) :
            LET q == validas(FrameAtual.rows, ColsAtuais, versao)[n]
                row == FrameAtual.rows[q]
            IN  \A campo \in Numericos :
                    SemValor(row, ColsAtuais, campo) =>
                        /\ dados_lista[n][campo] = Zero
                        /\ pc = "registrar" =>
                               <<dados_lista[n].codigo, versao>>
                                   \in Chaves(procedimentos)

\* C10: every row of dados_lista is a row of the frame read through, for
\* each field, the first alias of mapa that is a trimmed header: the code
\* and the description are the sanitised cells under it, and porte, uco and
\* filme are to_float of the cell under it (0.0 without such a header),
\* whatever the other alias column holds.
C10_PrioridadeAlias ==
    pc \in {"inserir", "registrar"} =>
        \A d \in Elems(dados_lista) :
            \E q \in 1..Len(FrameAtual.rows) :
                LET row == FrameAtual.rows[q]
                    Cel(campo) == Celula(row, ColsAtuais,
                                         PrimeiroAlias(campo, ColsAtuais))
                IN  /\ d.codigo = sanitize_str(Cel("codigo"))
                    /\ d.descricao = sanitize_str(Cel("descricao"))
                    /\ \A campo \in Numericos :
                           d[campo] = IF PrimeiroAlias(campo, ColsAtuais) = Nenhum
                                      THEN Zero ELSE to_float(Cel(campo))

\* the file with both aliases of codigo, descricao and uco, the later alias
\* in the earlier column: its row with an empty cell under the first alias
\* of codigo is kept under the text of that empty cell, not under the code
\* of the other column
C10_Witness ==
    /\ pc = "registrar"
    /\ arquivos[idx].bytes = 3
    /\ Len(dados_lista) = 2
    /\ dados_lista[1].codigo = <<"A", "1">>
    /\ dados_lista[2].codigo = sanitize_str(NaN)

\* Python's == between the bool importar returns and an int
IgualPy(ret, n) == (ret = "True" /\ n = 1) \/ (ret = "False" /\ n = 0)

\* C11: the value importar returns is the number of files of the list that
\* reached the fingerprint step of this call (the counter
\* arquivos_processados at the end of the loop).
C11_RetornaContagem ==
    [][pc = "fim" => IgualPy(saida'.ret, arquivos_processados)]_vars

\* C12: every row stored in procedimentos has porte >= 0, uco >= 0 and
\* filme >= 0, in the connection's view and in the committed database.
C12_NaoNegativos ==
    \A P \in {procedimentos, disco.procedimentos} :
        \A r \in DOMAIN P :
            \A campo \in Numericos : r[campo].k # "nan" /\ r[campo].m >= 0

\* C18: between calls, every fingerprint row carries a label that has at
\* least one row of procedimentos, so that versoes() lists it and Gerenciar
\* can remove it.
C18_SemOrfaos ==
    pc = "idle" =>
        /\ \A y \in arquivos_importados : y.versao \in versoes(procedimentos)
        /\ \A y \in disco.arquivos_importados :
               y.versao \in versoes(disco.procedimentos)

PUTs(t) == {n \in 1..Len(t) : t[n].m = "PUT"}
Aceito(st) == st \in {"200", "201"}

\* one run of salvar_banco_github: at most two PUT, the second only after a
\* first that was not answered 200/201 and a GET in between; a request that
\* fails is followed by the warning and nothing else; a run whose last PUT
\* was not accepted, or that sent none, ends with the warning
ProtocoloGithub(t) ==
    /\ Cardinality(PUTs(t)) <= 2
    /\ \A a, b \in PUTs(t) :
           a < b => /\ ~Aceito(t[a].st)
                    /\ \E g \in (a + 1)..(b - 1) : t[g].m = "GET"
    /\ \A n \in 1..Len(t) :
           t[n].st = "erro" => n + 1 = Len(t) /\ t[n + 1] = warn_user
    /\ t # <<>>
    /\ (t[Len(t)] = warn_user) =
           ~\E n \in PUTs(t) : Aceito(t[n].st)

\* C16: a handler calls salvar_banco_github at most once; importar calls it
\* in no step of its loop and, in the step that ends the call, exactly when
\* arquivos_processados > 0; when it is called nothing of the connection is
\* uncommitted, and the call leaves the tables and the committed database
\* as they are and the handler returns; every run of it follows the
\* protocol: at most two PUT, the second only after a first that was not
\* accepted and a new GET, failures ending in a warning.
C16_SincronizacaoGithub ==
    /\ [](/\ Len(github) <= 1
          /\ \A n \in 1..Len(github) : ProtocoloGithub(github[n].pedidos))
    /\ [][/\ pc \notin {"idle", "fim"} => github' = <<>>
          /\ pc = "fim" =>
                 /\ (github' # <<>>) = (arquivos_processados > 0)
                 /\ pc' = "idle"
                 /\ saida'.ret \in {"True", "False"}
          /\ (github' # <<>> /\ github' # github) =>
                 /\ disco' = [procedimentos |-> procedimentos',
                              arquivos_importados |-> arquivos_importados']
                 /\ github'[1].op = "Importação" =>
                        /\ pc = "fim"
                        /\ procedimentos' = procedimentos
                        /\ arquivos_importados' = arquivos_importados]_vars

\* importar has returned after a synchronisation whose first PUT was
\* refused and whose second, sent with the sha of the second GET, was
\* accepted
C16_Witness ==
    /\ pc = "idle"
    /\ saida.ret = "True"
    /\ Len(github) = 1
    /\ github[1].op = "Importação"
    /\ Len(github[1].pedidos) = 4
    /\ github[1].pedidos[2] = Pedido("PUT", "sha", "409")
    /\ github[1].pedidos[3] = Pedido("GET", "", "200")
    /\ github[1].pedidos[4] = Pedido("PUT", "sha2", "201")

\* a row of the table P, or of the fingerprint set A, is gone from P2, A2
Removido(P, A, P2, A2) ==
    \/ \E r \in DOMAIN P : r \notin DOMAIN P2 \/ P2[r] < P[r]
    \/ A \ A2 # {}

NaoPonto(c) == c # "."
NaoVirgula(c) == c # ","

\* the number a text stands for when read with '.' as a mark to drop and
\* ',' as the decimal mark: the digits before the comma as the integer
\* part, the digits after it as the fraction
ValorLocale(s) ==
    LET t  == SelectSeq(s, NaoPonto)
        a  == CHOOSE n \in 0..Len(t) :
                  /\ \A q \in 1..n : IsSpace(t[q])
                  /\ (n < Len(t) => ~IsSpace(t[n + 1]))
        b  == CHOOSE n \in a..Len(t) :
                  /\ \A q \in (n + 1)..Len(t) : IsSpace(t[q])
                  /\ (n > a => ~IsSpace(t[n]))
        u  == SubSeq(t, a + 1, b)
        sg == u # <<>> /\ u[1] \in {"+", "-"}
        w  == IF sg THEN Tail(u) ELSE u
        cs == {n \in 1..Len(w) : w[n] = ","}
        c  == IF cs = {} THEN Len(w) + 1 ELSE CHOOSE n \in cs : TRUE
        ip == SubSeq(w, 1, c - 1)
        fp == SubSeq(w, c + 1, Len(w))
        m  == DigitsVal(ip \o fp)
    IN  IF Cardinality(cs) <= 1 /\ AllDigits(ip) /\ AllDigits(fp)
           /\ Len(ip) + Len(fp) > 0
        THEN <<Normal(IF sg /\ u[1] = "-" THEN 0 - m ELSE m, Len(fp))>>
        ELSE <<>>

\* C13: to_float returns a native number as it is; of a text of digits,
\* dots, at most one comma, an optional sign and surrounding blanks it
\* returns the number read with every '.' dropped and ',' as the decimal
\* mark, whether or not the text has a comma: '1.234,56' gives 1234.56,
\* '100,50' gives 100.5 and '1234.56' gives 123456.
C13_TransformacaoLocale ==
    tf_ret # <<>> =>
        /\ tf_v.t = "int" => tf_ret = <<Fin(tf_v.n, 0)>>
        /\ tf_v.t = "float" => tf_ret = tf_v.f
        /\ (tf_v.t = "str" /\ ValorLocale(tf_v.s) # <<>>) =>
               tf_ret = ValorLocale(tf_v.s)
        /\ tf_v = Str(<<"1", ".", "2", "3", "4", ",", "5", "6">>) =>
               tf_ret = <<Fin(123456, 2)>>
        /\ tf_v = Str(<<"1", "0", "0", ",", "5", "0">>) =>
               tf_ret = <<Fin(1005, 1)>>
        /\ tf_v = Str(<<"1", "2", "3", "4", ".", "5", "6">>) =>
               tf_ret = <<Fin(123456, 0)>>

\* the dot-decimal text '1234.56' came back as 123456
C13_Witness ==
    /\ tf_v = Str(<<"1", "2", "3", "4", ".", "5", "6">>)
    /\ tf_ret = <<Fin(123456, 0)>>

\* a byte sequence that is UTF-8: no FF, every C3 followed by A9 and every
\* A9 preceded by C3
UTF8Valido(bs) ==
    \A n \in 1..Len(bs) :
        /\ bs[n] # "FF"
        /\ bs[n] = "C3" => (n < Len(bs) /\ bs[n + 1] = "A9")
        /\ bs[n] = "A9" => (n > 1 /\ bs[n - 1] = "C3")

Amostra == [n \in 1..(IF Len(file_bytes) < TamAmostra THEN Len(file_bytes)
                      ELSE TamAmostra) |-> file_bytes[n]]

\* C15: for every buffer read_csv_smart reaches pd.read_csv without an
\* exception, with the encoding utf-8 exactly when the first TamAmostra
\* bytes are UTF-8 and latin-1 otherwise, and with a delimiter among comma,
\* semicolon, tab and pipe: one that occurs in the sample, or the
\* semicolon.
C15_SnifferTotal ==
    sniffed # <<>> =>
        /\ ~sniffed[1].raised
        /\ sniffed[1].enc = (IF UTF8Valido(Amostra) THEN "utf-8" ELSE "latin-1")
        /\ sniffed[1].sep \in {",", ";", "\t", "|"}
        /\ \/ sniffed[1].sep = ";"
           \/ \E n \in 1..Len(Amostra) : Amostra[n] = sniffed[1].sep

\* a buffer that is UTF-8 as a whole and whose sample ends inside a
\* two-byte character: latin-1, and the semicolon of the fallback
C15_Witness ==
    /\ file_bytes = <<"a", ",", "C3", "A9">>
    /\ sniffed = <<[enc |-> "latin-1", sep |-> ";", raised |-> FALSE]>>

\* the file f of the folder is one importar takes to the insertion
Importavel(f) ==
    /\ ler(f).ok
    /\ ~cabecalho_falha(ler(f).columns)
    /\ ~colunas_invalidas(colunas(ler(f).columns))
    /\ ~linha_falha(colunas(ler(f).columns))

\* C17: in every committed state, a file whose fingerprint is in
\* arquivos_importados under label v has every valid (codigo, v) key of its
\* rows in procedimentos (rows bound as NULL aside).
C17_ConsistenciaConcorrente ==
    \A y \in disco.arquivos_importados :
        \A f \in pasta :
            (gerar_hash_arquivo(f) = y.hash /\ Importavel(f)) =>
                \A d \in Elems(normalizar(ler(f).rows,
                                          colunas(ler(f).columns), y.versao)) :
                    ~Nulo(d) =>
                        <<d.codigo, y.versao>> \in Chaves(disco.procedimentos)

=============================================================================
